---- MODULE Spec2Model ----
(***************************************************************************)
(* Loan and trust lifecycle of the equipment borrowing tracker.            *)
(*                                                                         *)
(* The record store (Dexie tables students, equipment, loans,              *)
(* blacklistEntries) is shared by every open page.  Each page keeps React  *)
(* state loaded from the store at some earlier moment (the student list of *)
(* AdminStudents, the equipment and student lists of BorrowFlow, the loan  *)
(* activity of StudentProfileModal); handlers act on that loaded state.    *)
(*                                                                         *)
(* Time is counted in minutes since the epoch.  A trust score is stored    *)
(* as an integer number of ScoreUnit-ths of a percent point, so that       *)
(* 50.0 is 50 * ScoreUnit and halving stays exact for HalfBits halvings    *)
(* of a one-decimal score.                                                 *)
(***************************************************************************)
EXTENDS Integers, Sequences, FiniteSets, TLC

\* ---------------------------------------------------------------- bounds
\* Ids and open pages of the largest run; each specification fixes its own
\* limits below.
NumStudents == 2
NumEquipment == 2
MaxLoans == 3
MaxEntries == 3
NumAdmins == 2
NumCaptains == 2
NumProfiles == 2
MaxTicks == 2
\* Clock steps, in minutes: within a loan's duration, and half a day.
LoanTick == 45
SuspendTick == 720
RepeatTicks == 3
\* Binary digits kept below a tenth of a point, for halved scores.
HalfBits == 1

\* ------------------------------------------------------ program constants
MIN_DURATION == 5
MAX_DURATION == 480
DEFAULT_DURATION == 60
DEFAULT_TRUST == 50
NEW_STUDENT_TRUST == 100
FIRST_OFFENDER_THRESHOLD == 3
REPEAT_OFFENDER_THRESHOLD == 1
RECENT_LIMIT == 10
EPOCH == 0
DayLen == 1440

\* ---------------------------------------------------------------- values
NULL == -1
NoReason == "null"
Reasons == {"late"}
ScoreUnit == 10 * (2 ^ HalfBits)
StartTime == DayLen
StartDay == StartTime \div DayLen
Days == (StartDay - 1)..(StartDay + 2)
Durations == {MIN_DURATION, DEFAULT_DURATION, MAX_DURATION}
Statuses == {"available", "borrowed", "reserved", "repair", "lost", "damaged"}

StudentIds == 1..NumStudents
EquipmentIds == 1..NumEquipment
LoanIds == 1..MaxLoans
EntryIds == 1..MaxEntries
Admins == 1..NumAdmins
Captains == 1..NumCaptains
Profiles == 1..NumProfiles

VARIABLES
  now,               \* the clock read by new Date()
  students,          \* db.students: id -> Student
  equipment,         \* db.equipment: id -> EquipmentItem
  loans,             \* db.loans: id -> Loan
  blacklistEntries,  \* db.blacklistEntries: id -> BlacklistEntry
  created,           \* how many ids generateUUID has handed out, per table
  adminStudents,     \* AdminStudents.students, per open admin page
  borrow,            \* BorrowFlow state, per open borrow flow
  profile,           \* StudentProfileModal state, per open modal
  atRiskStudents,    \* AdminLayout.atRiskStudents
  dismissed,         \* localStorage keys dismissed_<student>_<count>
  last,              \* the last handler that wrote to the store (or Tick)
  limits             \* the bounds of this run, fixed by the specification

vars == <<now, students, equipment, loans, blacklistEntries, created,
          adminStudents, borrow, profile, atRiskStudents, dismissed, last,
          limits>>

store == <<students, equipment, loans, blacklistEntries, created>>

\* ------------------------------------------------------------- helpers
EmptyTable == [x \in {} |-> 0]

\* Dexie Table.update(id, changes): a missing key changes nothing.
TableUpdate(table, id, changes) ==
  IF id \in DOMAIN table
    THEN [table EXCEPT ![id] =
            [f \in DOMAIN table[id] |->
               IF f \in DOMAIN changes THEN changes[f] ELSE table[id][f]]]
    ELSE table

\* Dexie Table.add(record) under a fresh generateUUID() key.
TableAdd(table, id, rec) ==
  [k \in (DOMAIN table) \cup {id} |-> IF k = id THEN rec ELSE table[k]]

\* Dexie Table.delete(id).
TableDelete(table, id) ==
  [k \in (DOMAIN table) \ {id} |-> table[k]]

\* new Date('YYYY-MM-DD').toISOString(): midnight UTC of that day.
DateToTime(day) == day * DayLen

\* new Date().toISOString().split('T')[0]: the UTC day of a time.
TimeToDate(t) == t \div DayLen

Op(name, student, loan, item) ==
  [op |-> name, student |-> student, loan |-> loan, item |-> item]

\* ------------------------------------------------------ trust score (db.ts)
ReturnedLoansOf(table, studentId) ==
  {l \in DOMAIN table :
     table[l].student_id = studentId /\ table[l].returned_at # NULL}

OnTimeReturns(table, ls) ==
  {l \in ls : table[l].returned_at # NULL /\ table[l].returned_at <= table[l].due_at}

\* Math.round(x * 10) / 10 for x = 100 * num / den, in tenths: round half up.
RoundTenths(num, den) == (2 * 1000 * num + den) \div (2 * den)

\* Mutant: the on-time ratio taken over every loan of the student, open ones
\* included.
calculateTrustScoreOpenCounted(table, studentId) ==
  LET all == {l \in DOMAIN table : table[l].student_id = studentId}
      ls == ReturnedLoansOf(table, studentId)
  IN IF Cardinality(ls) = 0
       THEN DEFAULT_TRUST * ScoreUnit
       ELSE RoundTenths(Cardinality(OnTimeReturns(table, ls)), Cardinality(all))
              * (ScoreUnit \div 10)

\* Mutant: the division by the number of returned loans forgotten.
calculateTrustScoreNoRatio(table, studentId) ==
  LET ls == ReturnedLoansOf(table, studentId)
  IN IF Cardinality(ls) = 0
       THEN DEFAULT_TRUST * ScoreUnit
       ELSE Cardinality(OnTimeReturns(table, ls)) * 100 * ScoreUnit

calculateTrustScore(table, studentId) ==
  LET ls == ReturnedLoansOf(table, studentId)
  IN IF Cardinality(ls) = 0
       THEN DEFAULT_TRUST * ScoreUnit
       ELSE RoundTenths(Cardinality(OnTimeReturns(table, ls)), Cardinality(ls))
              * (ScoreUnit \div 10)

\* Math.max(0, trust_score * 0.5)
Penalty(score) == IF score \div 2 > 0 THEN score \div 2 ELSE 0

\* ------------------------------------------------------------------ Init
ClosedFlow ==
  [step |-> "closed", equipment |-> EmptyTable, selectedEquipment |-> <<>>,
   students |-> EmptyTable, selectedStudent |-> 0,
   selectedDuration |-> DEFAULT_DURATION]

ClosedProfile == [student |-> 0, recentActivity |-> EmptyTable, toast |-> "none"]

\* The state of a fresh installation: empty tables, no page opened yet.
Fresh ==
  /\ now = StartTime
  /\ students = EmptyTable
  /\ equipment = EmptyTable
  /\ loans = EmptyTable
  /\ blacklistEntries = EmptyTable
  /\ created = [students |-> 0, equipment |-> 0, loans |-> 0, entries |-> 0]
  /\ adminStudents = [a \in Admins |-> EmptyTable]
  /\ borrow = [c \in Captains |-> ClosedFlow]
  /\ profile = [p \in Profiles |-> ClosedProfile]
  /\ atRiskStudents = EmptyTable
  /\ dismissed = {}
  /\ last = Op("init", 0, 0, 0)

\* The bounds of a run: ids handed out per table, and clock ticks.
Limits(nStudents, nEquipment, nLoans, nEntries, maxTime) ==
  [students |-> nStudents, equipment |-> nEquipment, loans |-> nLoans,
   entries |-> nEntries, maxTime |-> maxTime]

\* The clock advances between handlers.
Tick(step) ==
  /\ now + step <= limits.maxTime
  /\ now' = now + step
  /\ last' = Op("Tick", 0, 0, 0)
  /\ UNCHANGED <<store, adminStudents, borrow, profile, atRiskStudents, dismissed,
                 limits>>

\* -------------------------------------------------- AdminStudents (the page)
NewStudent ==
  [trust_score |-> NEW_STUDENT_TRUST * ScoreUnit, is_blacklisted |-> FALSE,
   blacklist_end_date |-> NULL, blacklist_reason |-> NoReason]

\* The fields of a loaded student row that the handlers of the page read
\* (the others only prefill the form or are displayed).
StudentRows(table) ==
  [s \in DOMAIN table |->
     [trust_score |-> table[s].trust_score,
      is_blacklisted |-> table[s].is_blacklisted]]

\* AdminStudents.loadStudents: the page loads its student list (on mount).
loadStudents(a) ==
  /\ adminStudents' = [adminStudents EXCEPT ![a] = StudentRows(students)]
  /\ UNCHANGED <<now, store, borrow, profile, atRiskStudents, dismissed, last, limits>>

\* AdminStudents.handleManualSubmit: add one student, then reload the list.
handleManualSubmit(a) ==
  /\ created.students < limits.students
  /\ LET id == created.students + 1
     IN /\ students' = TableAdd(students, id, NewStudent)
        /\ created' = [created EXCEPT !.students = id]
        /\ adminStudents' = [adminStudents EXCEPT ![a] = StudentRows(students')]
        /\ last' = Op("handleManualSubmit", id, 0, 0)
  /\ UNCHANGED <<now, equipment, loans, blacklistEntries, borrow, profile,
                 atRiskStudents, dismissed, limits>>

\* AdminStudents.handleFileImport: bulkAdd of the rows of a file, then reload.
handleFileImport(a) ==
  /\ \E n \in 1..NumStudents :
       /\ created.students + n <= limits.students
       /\ LET ids == (created.students + 1)..(created.students + n)
          IN /\ students' = [k \in (DOMAIN students) \cup ids |->
                               IF k \in ids THEN NewStudent ELSE students[k]]
             /\ created' = [created EXCEPT !.students = created.students + n]
             /\ adminStudents' = [adminStudents EXCEPT ![a] = StudentRows(students')]
             /\ last' = Op("handleFileImport", created.students + n, 0, 0)
  /\ UNCHANGED <<now, equipment, loans, blacklistEntries, borrow, profile,
                 atRiskStudents, dismissed, limits>>

\* The blacklist form as the browser lets it be submitted: with the toggle on,
\* the date input is required with min = today and the reason is required.
FormValid(form) ==
  form.is_blacklisted =>
    /\ form.blacklist_end_date # NULL
    /\ form.blacklist_end_date >= TimeToDate(now)
    /\ form.blacklist_reason # ""

\* What the admin may have put in the form: the toggle, a date, a reason.
BlacklistForms(days) ==
  [is_blacklisted : BOOLEAN, blacklist_end_date : days, blacklist_reason : Reasons]

\* Whether the halved score is still a whole number of score units.
Halvable(score) == score % 2 = 0

PenaltyApplies(form, selectedStudent) ==
  form.is_blacklisted /\ ~selectedStudent.is_blacklisted

\* The entries handleBlacklistSubmit closes when un-blacklisting.
CloseActiveEntries(entries, s) ==
  [e \in DOMAIN entries |->
     IF entries[e].student_id = s /\ entries[e].is_active
       THEN [entries[e] EXCEPT !.is_active = FALSE]
       ELSE entries[e]]

\* Mutant: the penalty halves the score stored at the time of the write
\* instead of the score of the loaded row.
handleBlacklistSubmitStoredScore(a, s, form) ==
  /\ s \in DOMAIN adminStudents[a]
  /\ s \in DOMAIN students
  /\ FormValid(form)
  /\ LET selectedStudent == adminStudents[a][s]
         isBlacklisted == form.is_blacklisted
         endDate == IF isBlacklisted THEN DateToTime(form.blacklist_end_date) ELSE NULL
         base == [is_blacklisted |-> isBlacklisted,
                  blacklist_end_date |-> endDate,
                  blacklist_reason |->
                    IF isBlacklisted THEN form.blacklist_reason ELSE NoReason]
         updateData ==
           IF PenaltyApplies(form, selectedStudent)
             THEN [f \in (DOMAIN base) \cup {"trust_score"} |->
                     IF f = "trust_score" THEN Penalty(students[s].trust_score)
                     ELSE base[f]]
             ELSE base
     IN /\ PenaltyApplies(form, selectedStudent) => Halvable(students[s].trust_score)
        /\ isBlacklisted => created.entries < limits.entries
        /\ students' = TableUpdate(students, s, updateData)
        /\ IF isBlacklisted
             THEN /\ blacklistEntries' =
                       TableAdd(blacklistEntries, created.entries + 1,
                                [student_id |-> s, start_date |-> now,
                                 end_date |-> DateToTime(form.blacklist_end_date),
                                 reason |-> form.blacklist_reason,
                                 is_active |-> TRUE])
                  /\ created' = [created EXCEPT !.entries = created.entries + 1]
             ELSE /\ blacklistEntries' =
                       IF selectedStudent.is_blacklisted
                         THEN CloseActiveEntries(blacklistEntries, s)
                         ELSE blacklistEntries
                  /\ created' = created
        /\ adminStudents' = [adminStudents EXCEPT ![a] = StudentRows(students')]
        /\ last' = Op(IF isBlacklisted THEN "Suspend" ELSE "Unsuspend", s, 0, 0)
  /\ UNCHANGED <<now, equipment, loans, borrow, profile, atRiskStudents, dismissed,
                 limits>>

\* AdminStudents.handleBlacklistSubmit on the student opened with
\* openBlacklistModal (selectedStudent is the row of the loaded list).
handleBlacklistSubmit(a, s, form) ==
  /\ s \in DOMAIN adminStudents[a]
  /\ FormValid(form)
  /\ LET selectedStudent == adminStudents[a][s]
         isBlacklisted == form.is_blacklisted
         endDate == IF isBlacklisted THEN DateToTime(form.blacklist_end_date) ELSE NULL
         base == [is_blacklisted |-> isBlacklisted,
                  blacklist_end_date |-> endDate,
                  blacklist_reason |->
                    IF isBlacklisted THEN form.blacklist_reason ELSE NoReason]
         updateData ==
           IF PenaltyApplies(form, selectedStudent)
             THEN [f \in (DOMAIN base) \cup {"trust_score"} |->
                     IF f = "trust_score" THEN Penalty(selectedStudent.trust_score)
                     ELSE base[f]]
             ELSE base
     IN /\ PenaltyApplies(form, selectedStudent) => Halvable(selectedStudent.trust_score)
        /\ isBlacklisted => created.entries < limits.entries
        /\ students' = TableUpdate(students, s, updateData)
        /\ IF isBlacklisted
             THEN /\ blacklistEntries' =
                       TableAdd(blacklistEntries, created.entries + 1,
                                [student_id |-> s, start_date |-> now,
                                 end_date |-> DateToTime(form.blacklist_end_date),
                                 reason |-> form.blacklist_reason,
                                 is_active |-> TRUE])
                  /\ created' = [created EXCEPT !.entries = created.entries + 1]
             ELSE /\ blacklistEntries' =
                       IF selectedStudent.is_blacklisted
                         THEN CloseActiveEntries(blacklistEntries, s)
                         ELSE blacklistEntries
                  /\ created' = created
        /\ adminStudents' = [adminStudents EXCEPT ![a] = StudentRows(students')]
        /\ last' = Op(IF isBlacklisted THEN "Suspend" ELSE "Unsuspend", s, 0, 0)
  /\ UNCHANGED <<now, equipment, loans, borrow, profile, atRiskStudents, dismissed,
                 limits>>

\* The store after db.students.delete(id) and the delete of the student's
\* blacklist entries, for every id of ids; loans and equipment are not touched.
DeleteStudents(ids) ==
  /\ students' = [s \in (DOMAIN students) \ ids |-> students[s]]
  /\ blacklistEntries' =
       [e \in {x \in DOMAIN blacklistEntries :
                 blacklistEntries[x].student_id \notin ids} |-> blacklistEntries[e]]
  /\ UNCHANGED <<equipment, loans, created>>

\* AdminStudents.handleDeleteStudent on a row of the loaded list (confirmed),
\* then the reload of the list.
handleDeleteStudent(a, s) ==
  /\ s \in DOMAIN adminStudents[a]
  /\ DeleteStudents({s})
  /\ adminStudents' = [adminStudents EXCEPT ![a] = StudentRows(students')]
  /\ last' = Op("handleDeleteStudent", s, 0, 0)
  /\ UNCHANGED <<now, borrow, profile, atRiskStudents, dismissed, limits>>

\* AdminStudents.handleBulkDelete with the rows ticked in the loaded list.
handleBulkDelete(a, selectedStudents) ==
  /\ selectedStudents # {}
  /\ selectedStudents \subseteq DOMAIN adminStudents[a]
  /\ DeleteStudents(selectedStudents)
  /\ adminStudents' = [adminStudents EXCEPT ![a] = StudentRows(students')]
  /\ last' = Op("handleBulkDelete", 0, 0, 0)
  /\ UNCHANGED <<now, borrow, profile, atRiskStudents, dismissed, limits>>

\* ------------------------------------------------------ AdminLayout (part_001)
LateReturns(ls) ==
  {l \in ls : loans[l].returned_at # NULL /\ loans[l].returned_at > loans[l].due_at}

MaxOf(S) == CHOOSE x \in S : \A y \in S : y <= x

\* Mutant: the warning threshold of a repeat offender for every student.
AtRiskRowOneThreshold(s) ==
  LET mine == {l \in DOMAIN loans : loans[l].student_id = s}
      returnedLoans == {l \in mine : loans[l].returned_at # NULL}
      allSuspensions == {e \in DOMAIN blacklistEntries :
                           blacklistEntries[e].student_id = s}
      inactiveSuspensions == {e \in allSuspensions : ~blacklistEntries[e].is_active}
      lastSuspensionDate ==
        IF inactiveSuspensions = {} THEN EPOCH
        ELSE MaxOf({blacklistEntries[e].end_date : e \in inactiveSuspensions})
      lateReturnsSince ==
        Cardinality({l \in LateReturns(returnedLoans) :
                       loans[l].returned_at > lastSuspensionDate})
      suspensionCount == Cardinality(allSuspensions)
  IN [late_returns_since_suspension |-> lateReturnsSince,
      total_suspensions |-> suspensionCount,
      warning_threshold |-> REPEAT_OFFENDER_THRESHOLD,
      total_late_returns |-> Cardinality(LateReturns(returnedLoans))]

\* The row checkAtRiskStudents computes for one student of its list.
AtRiskRow(s) ==
  LET mine == {l \in DOMAIN loans : loans[l].student_id = s}
      returnedLoans == {l \in mine : loans[l].returned_at # NULL}
      allSuspensions == {e \in DOMAIN blacklistEntries :
                           blacklistEntries[e].student_id = s}
      inactiveSuspensions == {e \in allSuspensions : ~blacklistEntries[e].is_active}
      lastSuspensionDate ==
        IF inactiveSuspensions = {} THEN EPOCH
        ELSE MaxOf({blacklistEntries[e].end_date : e \in inactiveSuspensions})
      lateReturnsSince ==
        Cardinality({l \in LateReturns(returnedLoans) :
                       loans[l].returned_at > lastSuspensionDate})
      suspensionCount == Cardinality(allSuspensions)
  IN [late_returns_since_suspension |-> lateReturnsSince,
      total_suspensions |-> suspensionCount,
      warning_threshold |->
        IF suspensionCount > 0 THEN REPEAT_OFFENDER_THRESHOLD
        ELSE FIRST_OFFENDER_THRESHOLD,
      total_late_returns |-> Cardinality(LateReturns(returnedLoans))]

\* Mutant: a suspension ending exactly now counts as expired.
ExpiredAtEndDate(student, t) ==
  /\ student.is_blacklisted
  /\ student.blacklist_end_date # NULL
  /\ student.blacklist_end_date <= t

\* The test of the lazy-expiry loop, on a student as read at time t.
Expired(student, t) ==
  /\ student.is_blacklisted
  /\ student.blacklist_end_date # NULL
  /\ student.blacklist_end_date < t

\* The students table after the lazy-expiry loop.
LazyExpire(table, t) ==
  [s \in DOMAIN table |->
     IF Expired(table[s], t)
       THEN [table[s] EXCEPT !.is_blacklisted = FALSE,
                             !.blacklist_end_date = NULL,
                             !.blacklist_reason = NoReason]
       ELSE table[s]]

\* Mutant: a dismissal silences the student whatever the count.
checkAtRiskStudentsKeyedByStudent ==
  /\ students' = LazyExpire(students, now)
  /\ atRiskStudents' =
       LET flagged == {s \in DOMAIN students :
                         /\ AtRiskRow(s).late_returns_since_suspension
                              >= AtRiskRow(s).warning_threshold
                         /\ \A d \in dismissed : d[1] # s}
       IN [s \in flagged |-> AtRiskRow(s)]
  /\ last' = Op("checkAtRiskStudents", 0, 0, 0)
  /\ UNCHANGED <<now, equipment, loans, blacklistEntries, created, adminStudents,
                 borrow, profile, dismissed, limits>>

\* AdminLayout.checkAtRiskStudents: the evaluation pass (lazy expiry of
\* suspensions, then the at-risk list).
checkAtRiskStudents ==
  /\ students' = LazyExpire(students, now)
  /\ atRiskStudents' =
       LET flagged == {s \in DOMAIN students :
                         /\ AtRiskRow(s).late_returns_since_suspension
                              >= AtRiskRow(s).warning_threshold
                         /\ <<s, AtRiskRow(s).late_returns_since_suspension>>
                              \notin dismissed}
       IN [s \in flagged |-> AtRiskRow(s)]
  /\ last' = Op("checkAtRiskStudents", 0, 0, 0)
  /\ UNCHANGED <<now, equipment, loans, blacklistEntries, created, adminStudents,
                 borrow, profile, dismissed, limits>>

\* AdminLayout.handleDismissNotification: the warning list without student s.
handleDismissNotification(list, s) ==
  [x \in (DOMAIN list) \ {s} |-> list[x]]

\* The dismiss button of the notification modal on the warning of student s:
\* the dismissal is recorded under the key dismissed_<student>_<count> that
\* checkAtRiskStudents reads, and the warning leaves the list.
NotificationModalDismiss(s) ==
  /\ s \in DOMAIN atRiskStudents
  /\ dismissed' =
       dismissed \cup {<<s, atRiskStudents[s].late_returns_since_suspension>>}
  /\ atRiskStudents' = handleDismissNotification(atRiskStudents, s)
  /\ UNCHANGED <<now, store, adminStudents, borrow, profile, last, limits>>

\* ---------------------------------------------------- AdminInventory (part_000)
\* AdminInventory.handleSubmit without editingItem: add an item with the
\* status chosen in the form.
handleSubmitAdd(status) ==
  /\ created.equipment < limits.equipment
  /\ LET id == created.equipment + 1
     IN /\ equipment' = TableAdd(equipment, id, [status |-> status])
        /\ created' = [created EXCEPT !.equipment = id]
        /\ last' = Op("handleSubmitAdd", 0, 0, id)
  /\ UNCHANGED <<now, students, loans, blacklistEntries, adminStudents, borrow,
                 profile, atRiskStudents, dismissed, limits>>

\* AdminInventory.handleSubmit with editingItem: write the form, status
\* included, over the item.
handleSubmitEdit(e, status) ==
  /\ e \in DOMAIN equipment
  /\ equipment' = TableUpdate(equipment, e, [status |-> status])
  /\ last' = Op("handleSubmitEdit", 0, 0, e)
  /\ UNCHANGED <<now, students, loans, blacklistEntries, created, adminStudents,
                 borrow, profile, atRiskStudents, dismissed, limits>>

\* AdminInventory.handleDelete: delete the item, whatever loans reference it.
handleDelete(e) ==
  /\ e \in DOMAIN equipment
  /\ equipment' = TableDelete(equipment, e)
  /\ last' = Op("handleDelete", 0, 0, e)
  /\ UNCHANGED <<now, students, loans, blacklistEntries, created, adminStudents,
                 borrow, profile, atRiskStudents, dismissed, limits>>

\* ------------------------------------------------ BorrowFlow (CaptainLayout.tsx)
\* The flow is mounted at step 'equipment' and loads the equipment list.
loadEquipment(c) ==
  /\ borrow[c].step = "closed"
  /\ borrow' = [borrow EXCEPT ![c] =
                  [ClosedFlow EXCEPT !.step = "equipment", !.equipment = equipment]]
  /\ UNCHANGED <<now, store, adminStudents, profile, atRiskStudents, dismissed,
                 last, limits>>

InSeq(x, seq) == \E i \in 1..Len(seq) : seq[i] = x

Without(seq, x) == SelectSeq(seq, LAMBDA y : y # x)

\* BorrowFlow.toggleEquipmentSelect on a card of the loaded list.
toggleEquipmentSelect(c, e) ==
  /\ borrow[c].step = "equipment"
  /\ e \in DOMAIN borrow[c].equipment
  /\ borrow[c].equipment[e].status \notin {"lost", "damaged"}
  /\ borrow[c].equipment[e].status = "available"
  /\ borrow' = [borrow EXCEPT ![c].selectedEquipment =
                  IF InSeq(e, @) THEN Without(@, e) ELSE Append(@, e)]
  /\ UNCHANGED <<now, store, adminStudents, profile, atRiskStudents, dismissed,
                 last, limits>>

\* The Checkout button: step 'student', whose effect is BorrowFlow.loadStudents.
Checkout(c) ==
  /\ borrow[c].step = "equipment"
  /\ Len(borrow[c].selectedEquipment) > 0
  /\ borrow' = [borrow EXCEPT
                  ![c].step = "student",
                  ![c].students = [s \in DOMAIN students |->
                                     [is_blacklisted |-> students[s].is_blacklisted]]]
  /\ UNCHANGED <<now, store, adminStudents, profile, atRiskStudents, dismissed,
                 last, limits>>

\* BorrowFlow.handleStudentSelect on a row of the loaded student list.
handleStudentSelect(c, s) ==
  /\ borrow[c].step = "student"
  /\ s \in DOMAIN borrow[c].students
  /\ borrow' = [borrow EXCEPT
                  ![c].selectedStudent = s,
                  ![c].step = IF borrow[c].students[s].is_blacklisted
                                THEN "student" ELSE "confirm"]
  /\ UNCHANGED <<now, store, adminStudents, profile, atRiskStudents, dismissed,
                 last, limits>>

\* The duration slider of the confirm step (min, max and step of the input).
setSelectedDuration(c, d) ==
  /\ borrow[c].step = "confirm"
  /\ d >= MIN_DURATION /\ d <= MAX_DURATION /\ d % 5 = 0
  /\ borrow' = [borrow EXCEPT ![c].selectedDuration = d]
  /\ UNCHANGED <<now, store, adminStudents, profile, atRiskStudents, dismissed,
                 last, limits>>

\* Mutant: the duration is not added to the due time.
NewLoanNoDuration(s, e, t, due) ==
  [student_id |-> s, equipment_id |-> e, borrowed_at |-> t, due_at |-> t,
   returned_at |-> NULL, is_overdue |-> FALSE, status |-> "active"]

NewLoan(s, e, t, due) ==
  [student_id |-> s, equipment_id |-> e, borrowed_at |-> t, due_at |-> due,
   returned_at |-> NULL, is_overdue |-> FALSE, status |-> "active"]

\* The loop of handleConfirm over selectedEquipment[i..]: one loans.add and
\* one equipment.update per item.
RECURSIVE ConfirmLoop(_, _, _, _, _)
ConfirmLoop(st, selected, i, s, due) ==
  IF i > Len(selected) THEN st
  ELSE LET id == st.created + 1
           st2 == [loans |-> TableAdd(st.loans, id, NewLoan(s, selected[i], now, due)),
                   equipment |-> TableUpdate(st.equipment, selected[i],
                                             [status |-> "borrowed"]),
                   created |-> id]
       IN ConfirmLoop(st2, selected, i + 1, s, due)

\* BorrowFlow.handleConfirm, then onComplete() closes the flow.
handleConfirm(c) ==
  /\ borrow[c].step = "confirm"
  /\ borrow[c].selectedStudent # 0
  /\ Len(borrow[c].selectedEquipment) > 0
  /\ created.loans + Len(borrow[c].selectedEquipment) <= limits.loans
  /\ LET dueTime == now + borrow[c].selectedDuration
         st == ConfirmLoop([loans |-> loans, equipment |-> equipment,
                            created |-> created.loans],
                           borrow[c].selectedEquipment, 1,
                           borrow[c].selectedStudent, dueTime)
     IN /\ loans' = st.loans
        /\ equipment' = st.equipment
        /\ created' = [created EXCEPT !.loans = st.created]
  /\ borrow' = [borrow EXCEPT ![c] = ClosedFlow]
  /\ last' = Op("handleConfirm", borrow[c].selectedStudent, created.loans + 1, 0)
  /\ UNCHANGED <<now, students, blacklistEntries, adminStudents, profile,
                 atRiskStudents, dismissed, limits>>

\* BorrowFlow.handleConfirm when a store write throws after n writes of the
\* loop went through (each is awaited and committed on its own): the catch
\* block alerts, and the flow stays on its confirm step.
handleConfirmThrows(c, n) ==
  /\ borrow[c].step = "confirm"
  /\ borrow[c].selectedStudent # 0
  /\ Len(borrow[c].selectedEquipment) > 0
  /\ n \in 0..(2 * Len(borrow[c].selectedEquipment) - 1)
  /\ created.loans + (n + 1) \div 2 <= limits.loans
  /\ LET selected == borrow[c].selectedEquipment
         dueTime == now + borrow[c].selectedDuration
         done == n \div 2
         st == ConfirmLoop([loans |-> loans, equipment |-> equipment,
                            created |-> created.loans],
                           SubSeq(selected, 1, done), 1,
                           borrow[c].selectedStudent, dueTime)
     IN /\ loans' = IF n % 2 = 1
                       THEN TableAdd(st.loans, st.created + 1,
                                     NewLoan(borrow[c].selectedStudent,
                                             selected[done + 1], now, dueTime))
                       ELSE st.loans
        /\ equipment' = st.equipment
        /\ created' = [created EXCEPT !.loans = st.created + (n % 2)]
  /\ last' = Op("handleConfirmThrows", borrow[c].selectedStudent, created.loans + 1, 0)
  /\ UNCHANGED <<now, students, blacklistEntries, adminStudents, borrow, profile,
                 atRiskStudents, dismissed, limits>>

\* ------------------------------------------ StudentProfileModal (the modal)
LoansOfStudent(table, s) == {l \in DOMAIN table : table[l].student_id = s}

\* loans.sort by borrowed_at descending, then slice(0, 10).
RecentLoans(table, s) ==
  LET mine == LoansOfStudent(table, s)
      Before(l) == {k \in mine : \/ table[k].borrowed_at > table[l].borrowed_at
                                 \/ /\ table[k].borrowed_at = table[l].borrowed_at
                                    /\ k < l}
  IN {l \in mine : Cardinality(Before(l)) < RECENT_LIMIT}

\* StudentProfileModal.loadStudentData: the activity rows of the modal, with
\* the field the handlers read.
loadStudentData(table, s) ==
  [l \in RecentLoans(table, s) |->
     [returned_at |-> table[l].returned_at]]

\* AdminStudents.handleViewProfile on a row of the loaded list opens the modal,
\* whose effect is loadStudentData.
handleViewProfile(a, p, s) ==
  /\ s \in DOMAIN adminStudents[a]
  /\ profile' = [profile EXCEPT ![p] =
                   [student |-> s, recentActivity |-> loadStudentData(loans, s),
                    toast |-> profile[p].toast]]
  /\ UNCHANGED <<now, store, adminStudents, borrow, atRiskStudents, dismissed,
                 last, limits>>

\* Mutant: the score is recalculated from the loans as they were before the
\* handler's write.
RecalculateBeforeWrite(p, newLoans) ==
  /\ students' = TableUpdate(students, profile[p].student,
                    [trust_score |-> calculateTrustScore(loans, profile[p].student)])
  /\ profile' = [profile EXCEPT
                   ![p].recentActivity = loadStudentData(newLoans, profile[p].student),
                   ![p].toast = "success"]

\* Mutant: the recalculated score of a suspended student keeps the penalty.
RecalculateKeepsPenalty(p, newLoans) ==
  /\ students' =
       TableUpdate(students, profile[p].student,
         [trust_score |->
            IF /\ profile[p].student \in DOMAIN students
               /\ students[profile[p].student].is_blacklisted
              THEN Penalty(calculateTrustScore(newLoans, profile[p].student))
              ELSE calculateTrustScore(newLoans, profile[p].student)])
  /\ profile' = [profile EXCEPT
                   ![p].recentActivity = loadStudentData(newLoans, profile[p].student),
                   ![p].toast = "success"]

\* The three handlers end alike: recalculate and store the trust score of the
\* modal's student, show the success toast, then reload the activity.
Recalculate(p, newLoans) ==
  /\ students' = TableUpdate(students, profile[p].student,
                    [trust_score |-> calculateTrustScore(newLoans, profile[p].student)])
  /\ profile' = [profile EXCEPT
                   ![p].recentActivity = loadStudentData(newLoans, profile[p].student),
                   ![p].toast = "success"]

LoanStatus(returned_at, isOverdue) ==
  IF returned_at # NULL THEN "returned" ELSE IF isOverdue THEN "overdue" ELSE "active"

\* StudentProfileModal.handleEditLoan on the activity row clicked
\* (selectedLoan), with the date typed in the Due Date input.
handleEditLoan(p, l, day) ==
  /\ profile[p].student # 0
  /\ l \in DOMAIN profile[p].recentActivity
  /\ LET selectedLoan == profile[p].recentActivity[l]
         newDueAt == DateToTime(day)
         isOverdue == selectedLoan.returned_at = NULL /\ newDueAt < now
     IN /\ loans' = TableUpdate(loans, l,
                       [due_at |-> newDueAt, is_overdue |-> isOverdue,
                        status |-> LoanStatus(selectedLoan.returned_at, isOverdue)])
        /\ Recalculate(p, loans')
  /\ last' = Op("handleEditLoan", profile[p].student, l, 0)
  /\ UNCHANGED <<now, equipment, blacklistEntries, created, adminStudents, borrow,
                 atRiskStudents, dismissed, limits>>

\* StudentProfileModal.handleMarkReturned; the button shows only on a row
\* loaded without returned_at.
handleMarkReturned(p, l) ==
  /\ profile[p].student # 0
  /\ l \in DOMAIN profile[p].recentActivity
  /\ profile[p].recentActivity[l].returned_at = NULL
  /\ loans' = TableUpdate(loans, l,
                 [returned_at |-> now, status |-> "returned", is_overdue |-> FALSE])
  /\ equipment' = IF l \in DOMAIN loans'
                    THEN TableUpdate(equipment, loans'[l].equipment_id,
                                     [status |-> "available"])
                    ELSE equipment
  /\ Recalculate(p, loans')
  /\ last' = Op("handleMarkReturned", profile[p].student, l, 0)
  /\ UNCHANGED <<now, blacklistEntries, created, adminStudents, borrow,
                 atRiskStudents, dismissed, limits>>

\* Mutant: the item is set back to 'available' whether or not the deleted
\* loan was returned.
handleDeleteLoanFreesItem(p, l) ==
  /\ profile[p].student # 0
  /\ l \in DOMAIN profile[p].recentActivity
  /\ equipment' = IF l \in DOMAIN loans
                    THEN TableUpdate(equipment, loans[l].equipment_id,
                                     [status |-> "available"])
                    ELSE equipment
  /\ loans' = TableDelete(loans, l)
  /\ Recalculate(p, loans')
  /\ last' = Op("handleDeleteLoan", profile[p].student, l, 0)
  /\ UNCHANGED <<now, blacklistEntries, created, adminStudents, borrow,
                 atRiskStudents, dismissed, limits>>

\* StudentProfileModal.handleDeleteLoan on the activity row clicked.
handleDeleteLoan(p, l) ==
  /\ profile[p].student # 0
  /\ l \in DOMAIN profile[p].recentActivity
  /\ equipment' = IF l \in DOMAIN loans /\ loans[l].returned_at = NULL
                    THEN TableUpdate(equipment, loans[l].equipment_id,
                                     [status |-> "available"])
                    ELSE equipment
  /\ loans' = TableDelete(loans, l)
  /\ Recalculate(p, loans')
  /\ last' = Op("handleDeleteLoan", profile[p].student, l, 0)
  /\ UNCHANGED <<now, blacklistEntries, created, adminStudents, borrow,
                 atRiskStudents, dismissed, limits>>

\* ------------------------------------------------------------ db.ts helpers
\* Mutant: the overdue test forgets returned_at.
updateLoanStatusIgnoresReturn(l) ==
  /\ loans' = IF l \in DOMAIN loans
                THEN LET isOverdue == loans[l].due_at < now
                     IN TableUpdate(loans, l,
                          [is_overdue |-> isOverdue,
                           status |-> LoanStatus(loans[l].returned_at, isOverdue)])
                ELSE loans
  /\ last' = Op("updateLoanStatus", 0, l, 0)
  /\ UNCHANGED <<now, students, equipment, blacklistEntries, created, adminStudents,
                 borrow, profile, atRiskStudents, dismissed, limits>>

\* updateLoanStatus(loanId), as a caller of db.ts would run it.
updateLoanStatus(l) ==
  /\ loans' = IF l \in DOMAIN loans
                THEN LET isOverdue == loans[l].returned_at = NULL /\ loans[l].due_at < now
                     IN TableUpdate(loans, l,
                          [is_overdue |-> isOverdue,
                           status |-> LoanStatus(loans[l].returned_at, isOverdue)])
                ELSE loans
  /\ last' = Op("updateLoanStatus", 0, l, 0)
  /\ UNCHANGED <<now, students, equipment, blacklistEntries, created, adminStudents,
                 borrow, profile, atRiskStudents, dismissed, limits>>

\* ------------------------------------------------------------------ Next
\* The steps of the pages in A, C and P, with form inputs drawn from the
\* given sets.
AdminStudentsStep(A, forms) ==
  \E a \in A :
    \/ loadStudents(a)
    \/ handleManualSubmit(a)
    \/ handleFileImport(a)
    \/ \E s \in StudentIds, form \in forms : handleBlacklistSubmit(a, s, form)

AdminInventoryStep(statuses) ==
  \/ \E status \in statuses : handleSubmitAdd(status)
  \/ \E e \in EquipmentIds, status \in statuses : handleSubmitEdit(e, status)
  \/ \E e \in EquipmentIds : handleDelete(e)

BorrowFlowStep(C, durations) ==
  \E c \in C :
    \/ loadEquipment(c)
    \/ \E e \in EquipmentIds : toggleEquipmentSelect(c, e)
    \/ Checkout(c)
    \/ \E s \in StudentIds : handleStudentSelect(c, s)
    \/ \E d \in durations : setSelectedDuration(c, d)
    \/ handleConfirm(c)

ProfileStep(A, P, days) ==
  \E p \in P :
    \/ \E a \in A, s \in StudentIds : handleViewProfile(a, p, s)
    \/ \E l \in LoanIds, day \in days : handleEditLoan(p, l, day)
    \/ \E l \in LoanIds : handleMarkReturned(p, l)
    \/ \E l \in LoanIds : handleDeleteLoan(p, l)

\* --- Suspensions: two admin pages, no loans.
InitSuspend ==
  Fresh /\ limits = Limits(NumStudents, 0, 0, 2, StartTime + MaxTicks * SuspendTick)

NextSuspend ==
  \/ Tick(SuspendTick)
  \/ AdminStudentsStep(Admins, BlacklistForms(Days))
  \/ checkAtRiskStudents

SpecSuspend == InitSuspend /\ [][NextSuspend]_vars

\* --- Trust score calculation: one student, one item borrowed again and
\* again, the profile modal of one admin page.
InitCalc == Fresh /\ limits = Limits(1, 1, MaxLoans, 0, StartTime + MaxTicks * LoanTick)

NextCalc ==
  \/ Tick(LoanTick)
  \/ handleManualSubmit(1)
  \/ handleSubmitAdd("available")
  \/ BorrowFlowStep({1}, {DEFAULT_DURATION})
  \/ ProfileStep({1}, {1}, {StartDay - 1, StartDay + 1})

SpecCalc == InitCalc /\ [][NextCalc]_vars

\* --- Trust score under every operation that writes it: one admin page with
\* its profile modal, one borrow flow, suspensions and their lazy expiry.
InitTrust == Fresh /\ limits = Limits(1, 1, 2, 2, StartTime + LoanTick)

NextTrust ==
  \/ Tick(LoanTick)
  \/ AdminStudentsStep({1}, BlacklistForms({StartDay}))
  \/ handleSubmitAdd("available")
  \/ BorrowFlowStep({1}, {DEFAULT_DURATION})
  \/ ProfileStep({1}, {1}, {StartDay - 1, StartDay + 1})
  \/ checkAtRiskStudents

SpecTrust == InitTrust /\ [][NextTrust]_vars

\* --- Borrowing: two borrow flows, the inventory page, one admin page with
\* its profile modal; one student, one item.
InitBorrow == Fresh /\ limits = Limits(1, 1, 2, 0, StartTime + LoanTick)

NextBorrow ==
  \/ Tick(LoanTick)
  \/ handleManualSubmit(1)
  \/ handleSubmitAdd("available")
  \/ \E e \in EquipmentIds, status \in {"available", "borrowed", "repair"} :
       handleSubmitEdit(e, status)
  \/ \E e \in EquipmentIds : handleDelete(e)
  \/ BorrowFlowStep(Captains, {DEFAULT_DURATION})
  \/ \E s \in StudentIds : handleViewProfile(1, 1, s)
  \/ \E l \in LoanIds : handleMarkReturned(1, l)
  \/ \E l \in LoanIds : handleDeleteLoan(1, l)

SpecBorrow == InitBorrow /\ [][NextBorrow]_vars

\* --- Stale student lists: two admin pages on the same store, one student
\* with one loan that is returned from the profile modal of the first page.
InitStale == Fresh /\ limits = Limits(1, 1, 1, 2, StartTime + LoanTick)

NextStale ==
  \/ Tick(LoanTick)
  \/ AdminStudentsStep(Admins, BlacklistForms({StartDay + 1}))
  \/ handleSubmitAdd("available")
  \/ BorrowFlowStep({1}, {DEFAULT_DURATION})
  \/ \E s \in StudentIds : handleViewProfile(1, 1, s)
  \/ \E l \in LoanIds : handleMarkReturned(1, l)

SpecStale == InitStale /\ [][NextStale]_vars

\* --- Loan creation: one borrow flow over two items, every position of the
\* duration slider and some values outside it, store writes that may throw.
DurationInputs == Durations \cup {MIN_DURATION - 5, MAX_DURATION + 5}

InitLoan == Fresh /\ limits = Limits(1, NumEquipment, 2, 0, StartTime + LoanTick)

NextLoan ==
  \/ Tick(LoanTick)
  \/ handleManualSubmit(1)
  \/ handleSubmitAdd("available")
  \/ BorrowFlowStep({1}, DurationInputs)
  \/ \E n \in 0..(2 * NumEquipment - 1) : handleConfirmThrows(1, n)

SpecLoan == InitLoan /\ [][NextLoan]_vars

\* --- Overdue evaluation: loans of one student, returned or not, with
\* updateLoanStatus run on any loan id at any time.
InitOverdue == Fresh /\ limits = Limits(1, 1, 2, 0, StartTime + MaxTicks * LoanTick)

NextOverdue ==
  \/ Tick(LoanTick)
  \/ handleManualSubmit(1)
  \/ handleSubmitAdd("available")
  \/ BorrowFlowStep({1}, {DEFAULT_DURATION})
  \/ \E s \in StudentIds : handleViewProfile(1, 1, s)
  \/ \E l \in LoanIds : handleMarkReturned(1, l)
  \/ \E l \in LoanIds : updateLoanStatus(l)

SpecOverdue == InitOverdue /\ [][NextOverdue]_vars

\* --- Stale profile rows: two admin pages, each with its profile modal open
\* on the same student, whose loan one modal deletes or returns while the
\* other still shows it; suspensions from the first page.
InitMissing == Fresh /\ limits = Limits(1, 1, 1, 1, StartTime)

NextMissing ==
  \/ \E a \in Admins : loadStudents(a)
  \/ handleManualSubmit(1)
  \/ \E s \in StudentIds, form \in BlacklistForms({StartDay + 1}) :
       handleBlacklistSubmit(1, s, form)
  \/ handleSubmitAdd("available")
  \/ BorrowFlowStep({1}, {DEFAULT_DURATION})
  \/ \E a \in Admins, s \in StudentIds : handleViewProfile(a, a, s)
  \/ \E p \in Profiles, l \in LoanIds : handleMarkReturned(p, l)
  \/ \E p \in Profiles, l \in LoanIds : handleDeleteLoan(p, l)

SpecMissing == InitMissing /\ [][NextMissing]_vars

\* --- First offender: one student without suspensions, up to three loans of
\* one item, returned on time or late, the evaluation pass and the dismissal
\* of a warning.
InitFirst == Fresh /\ limits = Limits(1, 1, MaxLoans, 0, StartTime + DayLen)

NextFirst ==
  \/ Tick(DayLen)
  \/ handleManualSubmit(1)
  \/ handleSubmitAdd("available")
  \/ BorrowFlowStep({1}, {DEFAULT_DURATION})
  \/ ProfileStep({1}, {1}, {StartDay - 1})
  \/ checkAtRiskStudents
  \/ \E s \in StudentIds : NotificationModalDismiss(s)

SpecFirst == InitFirst /\ [][NextFirst]_vars

\* --- Repeat offender: one student, one suspension (ended by hand or by lazy
\* expiry), up to two loans of one item, day-long clock steps, the evaluation
\* pass and the dismissal of a warning.
InitRepeat == Fresh /\ limits = Limits(1, 1, 2, 1, StartTime + RepeatTicks * DayLen)

NextRepeat ==
  \/ Tick(DayLen)
  \/ handleManualSubmit(1)
  \/ \E s \in StudentIds, form \in BlacklistForms({StartDay + 1, StartDay + 2}) :
       handleBlacklistSubmit(1, s, form)
  \/ handleSubmitAdd("available")
  \/ BorrowFlowStep({1}, {DEFAULT_DURATION})
  \/ \E s \in StudentIds : handleViewProfile(1, 1, s)
  \/ \E l \in LoanIds : handleMarkReturned(1, l)
  \/ checkAtRiskStudents
  \/ \E s \in StudentIds : NotificationModalDismiss(s)

SpecRepeat == InitRepeat /\ [][NextRepeat]_vars

\* --- Loan edits: two profile modals on the same store, one student, one
\* item, up to two loans, and the overdue refresh of db.ts.
InitEdit == Fresh /\ limits = Limits(1, 1, 2, 0, StartTime + LoanTick)

NextEdit ==
  \/ Tick(LoanTick)
  \/ handleManualSubmit(1)
  \/ handleSubmitAdd("available")
  \/ BorrowFlowStep({1}, {DEFAULT_DURATION})
  \/ ProfileStep({1}, Profiles, {StartDay - 1, StartDay + 1})
  \/ \E l \in LoanIds : updateLoanStatus(l)

SpecEdit == InitEdit /\ [][NextEdit]_vars

\* --- Student deletion: one admin page with single and bulk delete, two
\* students, one item, one loan borrowed and returned.
InitDelete == Fresh /\ limits = Limits(NumStudents, 1, 1, 1, StartTime)

NextDelete ==
  \/ \E a \in {1} : loadStudents(a)
  \/ handleManualSubmit(1)
  \/ \E s \in StudentIds, form \in BlacklistForms({StartDay + 1}) :
       handleBlacklistSubmit(1, s, form)
  \/ \E s \in StudentIds : handleDeleteStudent(1, s)
  \/ \E S \in SUBSET StudentIds : handleBulkDelete(1, S)
  \/ handleSubmitAdd("available")
  \/ BorrowFlowStep({1}, {DEFAULT_DURATION})
  \/ \E s \in StudentIds : handleViewProfile(1, 1, s)
  \/ \E l \in LoanIds : handleMarkReturned(1, l)

SpecDelete == InitDelete /\ [][NextDelete]_vars

\* ================================================================ claims
RecalcOps == {"handleMarkReturned", "handleEditLoan", "handleDeleteLoan"}

Returned(s) ==
  {l \in DOMAIN loans : loans[l].student_id = s /\ loans[l].returned_at # NULL}

ReturnedOnTime(s) == {l \in Returned(s) : loans[l].returned_at <= loans[l].due_at}

Tenths(score) == score \div (ScoreUnit \div 10)

Abs(x) == IF x < 0 THEN -x ELSE x

\* A transition that is handleBlacklistSubmit with the toggle on, for student s.
IsSuspend(s) ==
  \E a \in Admins, form \in BlacklistForms(Days) :
    form.is_blacklisted /\ handleBlacklistSubmit(a, s, form)

\* C3: every stored trust score lies between 0 and 100, whatever sequence of
\* student creations, borrows, returns, edits, deletions, suspensions,
\* un-suspensions and lazy expiries led to it.
C3_TrustScoreBounds ==
  \A s \in DOMAIN students :
    students[s].trust_score >= 0 /\ students[s].trust_score <= 100 * ScoreUnit

\* C3 witness: a suspended student with a returned loan whose score was
\* recalculated to 50.0 and then halved.
C3_Witness ==
  \E s \in DOMAIN students :
    /\ students[s].is_blacklisted
    /\ students[s].trust_score = 25 * ScoreUnit
    /\ Returned(s) # {}

\* C4: right after a profile handler recalculated the score of a student with
\* n >= 1 returned loans, k of them on time (returned_at <= due_at), the stored
\* score is a whole number of tenths, the one nearest to 100 * k / n, open loans
\* not counted; 2 on time out of 3 gives 66.7.
C4_OnTimeRatio ==
  \A s \in DOMAIN students :
    (last.op \in RecalcOps /\ last.student = s /\ Returned(s) # {}) =>
      LET n == Cardinality(Returned(s))
          k == Cardinality(ReturnedOnTime(s))
          score == students[s].trust_score
      IN /\ score % (ScoreUnit \div 10) = 0
         /\ 2 * Abs(Tenths(score) * n - 1000 * k) <= n
         /\ (n = 3 /\ k = 2) => Tenths(score) = 667

\* C4 witness: a score just recalculated over 3 returned loans, 2 on time.
C4_Witness ==
  \E s \in DOMAIN students :
    /\ last.op \in RecalcOps /\ last.student = s
    /\ Cardinality(Returned(s)) = 3
    /\ Cardinality(ReturnedOnTime(s)) = 2
    /\ Tenths(students[s].trust_score) = 667

\* C5: a student with no returned loan has trust score 50.0.
C5_DefaultScore ==
  \A s \in DOMAIN students :
    Returned(s) = {} => students[s].trust_score = DEFAULT_TRUST * ScoreUnit

\* C7: Suspend on a student who is not suspended, in the store as on the
\* page, halves the score stored at that moment, whatever the profile modal
\* did to it since the page loaded its list.
C7_PenaltyOnStoredScore ==
  [][\A s \in DOMAIN students, a \in Admins, form \in BlacklistForms(Days) :
       (/\ form.is_blacklisted
        /\ handleBlacklistSubmit(a, s, form)
        /\ ~students[s].is_blacklisted
        /\ ~adminStudents[a][s].is_blacklisted
        /\ Halvable(students[s].trust_score))
         => 2 * students'[s].trust_score = students[s].trust_score]_vars

OpenLoansOn(e) ==
  {l \in DOMAIN loans : loans[l].equipment_id = e /\ loans[l].returned_at = NULL}

\* C1: an item has status 'borrowed' exactly when one loan without
\* returned_at references it.
C1_EquipmentLoanConsistency ==
  \A e \in DOMAIN equipment :
    equipment[e].status = "borrowed" <=> Cardinality(OpenLoansOn(e)) = 1

\* C2: no item ever has two loans without returned_at (of two borrow flows
\* that loaded it as available, one must fail).
C2_NoDoubleBorrow ==
  \A e \in EquipmentIds : Cardinality(OpenLoansOn(e)) <= 1

ActiveEntries(s) ==
  {e \in DOMAIN blacklistEntries :
     blacklistEntries[e].student_id = s /\ blacklistEntries[e].is_active}

\* C6: Suspend submitted for a student stored as suspended leaves the stored
\* trust score as it was.
C6_NoSecondPenalty ==
  [][\A s \in DOMAIN students :
       (IsSuspend(s) /\ students[s].is_blacklisted)
         => students'[s].trust_score = students[s].trust_score]_vars

\* C8: a student never has two blacklist entries with is_active.
C8_OneActiveEntry ==
  \A s \in StudentIds : Cardinality(ActiveEntries(s)) <= 1

\* Whether the iff of C9 holds of student s now.
BlacklistedIffActiveEntry(s) ==
  students[s].is_blacklisted <=>
    \E e \in ActiveEntries(s) : blacklistEntries[e].end_date >= now

\* C9: right after a suspend or un-suspend of a student, and for every
\* student right after an evaluation pass, is_blacklisted holds exactly when
\* the student has an active entry whose end_date has not passed.
C9_BlacklistedIffActiveEntry ==
  /\ last.op \in {"Suspend", "Unsuspend"} =>
       (last.student \in DOMAIN students => BlacklistedIffActiveEntry(last.student))
  /\ last.op = "checkAtRiskStudents" =>
       \A s \in DOMAIN students : BlacklistedIffActiveEntry(s)

\* C10: the evaluation pass stores every student whose suspension ended before
\* now as not suspended, end date and reason cleared, and leaves a suspended
\* student whose end date has not passed as stored.
C10_LazyExpiry ==
  [][checkAtRiskStudents =>
       \A s \in DOMAIN students :
         /\ (students[s].is_blacklisted /\ students[s].blacklist_end_date # NULL
              /\ students[s].blacklist_end_date < now)
              => /\ ~students'[s].is_blacklisted
                 /\ students'[s].blacklist_end_date = NULL
                 /\ students'[s].blacklist_reason = NoReason
         /\ (students[s].is_blacklisted /\ students[s].blacklist_end_date >= now)
              => students'[s] = students[s]]_vars

\* C10 witness: right after a pass, one student's ended suspension has been
\* cleared (its entry is still there, ended) while another student, whose end
\* date has not passed, is still suspended.
C10_Witness ==
  /\ last.op = "checkAtRiskStudents"
  /\ \E s \in DOMAIN students :
       /\ ~students[s].is_blacklisted
       /\ students[s].blacklist_end_date = NULL
       /\ \E e \in ActiveEntries(s) : blacklistEntries[e].end_date < now
  /\ \E s \in DOMAIN students :
       /\ students[s].is_blacklisted
       /\ students[s].blacklist_end_date >= now

\* C11: no borrow is confirmed for a student who is suspended in the store at
\* that moment, a suspension whose end date has passed counting as ended.
C11_NoLoanForSuspended ==
  [][\A c \in Captains :
       (handleConfirm(c) /\ borrow[c].selectedStudent \in DOMAIN students)
         => LET student == students[borrow[c].selectedStudent]
            IN ~(student.is_blacklisted /\ ~Expired(student, now))]_vars

\* C12: a confirmed borrow at time now with duration d creates, for each
\* selected item, exactly one loan with borrowed_at = now, due_at = now + d,
\* no returned_at, not overdue, status 'active', and stores the item as
\* 'borrowed'; d lies within [MIN_DURATION, MAX_DURATION].
C12_CreateLoan ==
  [][\A c \in Captains :
       handleConfirm(c) =>
         LET selected == borrow[c].selectedEquipment
             d == borrow[c].selectedDuration
             new == (DOMAIN loans') \ (DOMAIN loans)
         IN /\ d >= MIN_DURATION /\ d <= MAX_DURATION
            /\ Cardinality(new) = Len(selected)
            /\ \A i \in 1..Len(selected) :
                 /\ Cardinality({l \in new : loans'[l].equipment_id = selected[i]}) = 1
                 /\ \A l \in new :
                      loans'[l].equipment_id = selected[i] =>
                        /\ loans'[l].student_id = borrow[c].selectedStudent
                        /\ loans'[l].borrowed_at = now
                        /\ loans'[l].due_at = now + d
                        /\ loans'[l].returned_at = NULL
                        /\ ~loans'[l].is_overdue
                        /\ loans'[l].status = "active"
                 /\ selected[i] \in DOMAIN equipment =>
                      equipment'[selected[i]].status = "borrowed"]_vars

\* C12 witness: two items just borrowed in one confirmation, for the longest
\* duration.
C12_Witness ==
  /\ last.op = "handleConfirm"
  /\ \E l1, l2 \in DOMAIN loans :
       /\ l1 # l2
       /\ loans[l1].equipment_id # loans[l2].equipment_id
       /\ \A l \in {l1, l2} :
            /\ loans[l].borrowed_at = now
            /\ loans[l].due_at = now + MAX_DURATION
            /\ loans[l].status = "active"
            /\ equipment[loans[l].equipment_id].status = "borrowed"

\* Every item stored as 'borrowed' has an open loan, and every open loan's
\* item is stored as 'borrowed'.
LoanItemConsistent(eq, ls) ==
  /\ \A e \in DOMAIN eq :
       eq[e].status = "borrowed" =>
         \E l \in DOMAIN ls : ls[l].equipment_id = e /\ ls[l].returned_at = NULL
  /\ \A l \in DOMAIN ls :
       (ls[l].returned_at = NULL /\ ls[l].equipment_id \in DOMAIN eq) =>
         eq[ls[l].equipment_id].status = "borrowed"

\* C19: a confirmation in which a store write throws leaves items and open
\* loans consistent, if they were.
C19_FailureLeavesNoOrphan ==
  [][\A c \in Captains, n \in 0..(2 * NumEquipment - 1) :
       (handleConfirmThrows(c, n) /\ LoanItemConsistent(equipment, loans))
         => LoanItemConsistent(equipment', loans')]_vars

\* C13: marking an open loan returned at time now stores returned_at = now,
\* status 'returned', is_overdue false, the item as 'available', and the
\* student's score as calculateTrustScore over the returned loans, this one
\* among them.
C13_ReturnLoan ==
  [][\A p \in Profiles, l \in LoanIds :
       (handleMarkReturned(p, l) /\ l \in DOMAIN loans /\ loans[l].returned_at = NULL)
         => /\ loans'[l].returned_at = now
            /\ loans'[l].status = "returned"
            /\ ~loans'[l].is_overdue
            /\ loans[l].equipment_id \in DOMAIN equipment =>
                 equipment'[loans[l].equipment_id].status = "available"
            /\ LET s == loans[l].student_id
               IN s \in DOMAIN students =>
                    /\ l \in ReturnedLoansOf(loans', s)
                    /\ students'[s].trust_score = calculateTrustScore(loans', s)]_vars

\* C13 witness: a loan just returned after its due time, its item available
\* again, the student's score recalculated to 0.
C13_Witness ==
  /\ last.op = "handleMarkReturned"
  /\ last.loan \in DOMAIN loans
  /\ loans[last.loan].returned_at = now
  /\ loans[last.loan].returned_at > loans[last.loan].due_at
  /\ loans[last.loan].status = "returned"
  /\ equipment[loans[last.loan].equipment_id].status = "available"
  /\ students[last.student].trust_score = 0

\* The status and is_overdue that (due_at, returned_at, now) determine.
DerivedOverdue(loan, t) == loan.returned_at = NULL /\ loan.due_at < t

DerivedStatus(loan, t) ==
  IF loan.returned_at # NULL THEN "returned"
  ELSE IF loan.due_at < t THEN "overdue" ELSE "active"

\* C14: when the profile modal loads a student's loans for its statistics,
\* each loan's stored status and is_overdue are the ones derived from
\* (due_at, returned_at, now).
C14_StoredStatusDerived ==
  [][\A a \in Admins, p \in Profiles, s \in StudentIds :
       handleViewProfile(a, p, s) =>
         \A l \in LoansOfStudent(loans, s) :
           /\ loans[l].status = DerivedStatus(loans[l], now)
           /\ loans[l].is_overdue = DerivedOverdue(loans[l], now)]_vars

\* C16: deleting an open loan removes it, stores its item as 'available', and
\* leaves the student's stored score as it was.
C16_DeleteOpenLoan ==
  [][\A p \in Profiles, l \in LoanIds :
       (handleDeleteLoan(p, l) /\ l \in DOMAIN loans /\ loans[l].returned_at = NULL)
         => /\ l \notin DOMAIN loans'
            /\ loans[l].equipment_id \in DOMAIN equipment =>
                 equipment'[loans[l].equipment_id].status = "available"
            /\ LET s == loans[l].student_id
               IN s \in DOMAIN students =>
                    students'[s].trust_score = students[s].trust_score]_vars

\* C17: deleting a returned loan removes it, leaves every item as stored, and
\* stores the student's score as calculateTrustScore over the returned loans
\* that remain, 50.0 if none does.
C17_DeleteReturnedLoan ==
  [][\A p \in Profiles, l \in LoanIds :
       (handleDeleteLoan(p, l) /\ l \in DOMAIN loans /\ loans[l].returned_at # NULL)
         => /\ l \notin DOMAIN loans'
            /\ equipment' = equipment
            /\ LET s == loans[l].student_id
                   remaining == ReturnedLoansOf(loans, s) \ {l}
               IN s \in DOMAIN students =>
                    /\ students'[s].trust_score = calculateTrustScore(loans', s)
                    /\ remaining = {} =>
                         students'[s].trust_score = DEFAULT_TRUST * ScoreUnit]_vars

\* C17 witness: the only returned loan has just been deleted while its item
\* is out on another loan: the item is still 'borrowed' and the score is 50.0.
C17_Witness ==
  /\ last.op = "handleDeleteLoan"
  /\ last.loan \notin DOMAIN loans
  /\ Returned(last.student) = {}
  /\ students[last.student].trust_score = DEFAULT_TRUST * ScoreUnit
  /\ \E l \in DOMAIN loans :
       /\ loans[l].returned_at = NULL
       /\ l > last.loan
       /\ equipment[loans[l].equipment_id].status = "borrowed"

\* C15: updateLoanStatus on a stored loan sets is_overdue to (no returned_at
\* and due_at < now) and status to 'returned', 'overdue' or 'active'
\* accordingly, so a loan never returned and evaluated after its due time
\* becomes overdue; it writes nothing else, and nothing for a missing id.
C15_UpdateLoanStatus ==
  [][\A l \in LoanIds :
       updateLoanStatus(l) =>
         IF l \in DOMAIN loans
           THEN /\ loans'[l].is_overdue = DerivedOverdue(loans[l], now)
                /\ loans'[l].status = DerivedStatus(loans[l], now)
                /\ (loans[l].returned_at = NULL /\ now > loans[l].due_at) =>
                     (loans'[l].is_overdue /\ loans'[l].status = "overdue")
                /\ loans' = [loans EXCEPT ![l].is_overdue = loans'[l].is_overdue,
                                          ![l].status = loans'[l].status]
                /\ UNCHANGED <<students, equipment, blacklistEntries>>
           ELSE UNCHANGED store]_vars

\* C15 witness: a loan of 60 minutes, never returned, just evaluated 90
\* minutes after the borrow: overdue.
C15_Witness ==
  /\ last.op = "updateLoanStatus"
  /\ last.loan \in DOMAIN loans
  /\ loans[last.loan].returned_at = NULL
  /\ loans[last.loan].due_at = loans[last.loan].borrowed_at + DEFAULT_DURATION
  /\ now = loans[last.loan].borrowed_at + 2 * LoanTick
  /\ loans[last.loan].is_overdue
  /\ loans[last.loan].status = "overdue"

\* C18: a confirmed borrow creates no loan for a selected item that is not
\* stored as 'available' at that moment, and leaves that item as stored.
C18_RejectUnavailableItem ==
  [][\A c \in Captains :
       handleConfirm(c) =>
         \A i \in 1..Len(borrow[c].selectedEquipment) :
           LET e == borrow[c].selectedEquipment[i]
           IN (e \in DOMAIN equipment /\ equipment[e].status # "available") =>
                /\ \A l \in (DOMAIN loans') \ (DOMAIN loans) :
                     loans'[l].equipment_id # e
                /\ equipment'[e] = equipment[e]]_vars

\* C20: marking returned a loan that is no longer in the store reports an
\* error to the admin and changes no loan, item or student record.
C20_ReturnMissingLoan ==
  [][\A p \in Profiles, l \in LoanIds :
       (handleMarkReturned(p, l) /\ l \notin DOMAIN loans)
         => /\ profile'[p].toast = "error"
            /\ UNCHANGED <<loans, equipment, students>>]_vars

\* C21: a Suspend whose end date is missing or not after now, or whose reason
\* is empty, changes neither the student records nor the blacklist entries.
C21_RejectInvalidSuspend ==
  [][\A a \in Admins, s \in StudentIds :
       \A form \in [is_blacklisted : {TRUE},
                    blacklist_end_date : Days \cup {NULL},
                    blacklist_reason : Reasons \cup {""}] :
         (/\ handleBlacklistSubmit(a, s, form)
          /\ \/ form.blacklist_end_date = NULL
             \/ DateToTime(form.blacklist_end_date) <= now
             \/ form.blacklist_reason = "")
           => UNCHANGED <<students, blacklistEntries>>]_vars

\* A transition that is handleBlacklistSubmit with the toggle off, for student s.
IsUnsuspend(s) ==
  \E a \in Admins, form \in BlacklistForms(Days) :
    ~form.is_blacklisted /\ handleBlacklistSubmit(a, s, form)

\* C22: Unsuspend of a student stored as suspended clears is_blacklisted, the
\* end date and the reason, leaves none of the student's entries active,
\* deletes no entry and leaves the trust score as it was.
C22_Unsuspend ==
  [][\A s \in DOMAIN students :
       (IsUnsuspend(s) /\ students[s].is_blacklisted)
         => /\ ~students'[s].is_blacklisted
            /\ students'[s].blacklist_end_date = NULL
            /\ students'[s].blacklist_reason = NoReason
            /\ students'[s].trust_score = students[s].trust_score
            /\ DOMAIN blacklistEntries \subseteq DOMAIN blacklistEntries'
            /\ \A e \in DOMAIN blacklistEntries' :
                 blacklistEntries'[e].student_id = s
                   => ~blacklistEntries'[e].is_active]_vars

\* The number of late returns (returned_at > due_at) of student s.
LateReturnCount(s) ==
  Cardinality({l \in Returned(s) : loans[l].returned_at > loans[l].due_at})

\* Student s has no blacklist entry at all.
NoEntries(s) == \A e \in DOMAIN blacklistEntries : blacklistEntries[e].student_id # s

\* C23: right after an evaluation pass, a student without any blacklist entry
\* and with fewer than 3 late returns is not in the warning list, and one with
\* 3 or more late returns is, unless the warning was dismissed at that count.
C23_FirstOffenderThreshold ==
  last.op = "checkAtRiskStudents" =>
    \A s \in DOMAIN students :
      NoEntries(s) =>
        /\ LateReturnCount(s) < FIRST_OFFENDER_THRESHOLD
             => s \notin DOMAIN atRiskStudents
        /\ (/\ LateReturnCount(s) >= FIRST_OFFENDER_THRESHOLD
            /\ <<s, LateReturnCount(s)>> \notin dismissed)
             => s \in DOMAIN atRiskStudents

\* C23 witness: a pass has flagged a student with exactly 3 late returns and
\* no blacklist entry.
C23_Witness ==
  /\ last.op = "checkAtRiskStudents"
  /\ \E s \in DOMAIN students :
       /\ NoEntries(s)
       /\ LateReturnCount(s) = FIRST_OFFENDER_THRESHOLD
       /\ s \in DOMAIN atRiskStudents
       /\ atRiskStudents[s].warning_threshold = FIRST_OFFENDER_THRESHOLD

\* A pass has left unflagged a student with exactly 2 late returns.
C23_BelowThreshold ==
  /\ last.op = "checkAtRiskStudents"
  /\ \E s \in DOMAIN students :
       /\ NoEntries(s)
       /\ LateReturnCount(s) = FIRST_OFFENDER_THRESHOLD - 1
       /\ s \notin DOMAIN atRiskStudents

\* The blacklist entries of student s.
EntriesOf(s) == {e \in DOMAIN blacklistEntries : blacklistEntries[e].student_id = s}

\* Student s has one suspension, entry e, set with an end date after its
\* start, and it has ended: closed by an un-suspend, or past its end date with
\* the student stored as not suspended.
OneEndedSuspension(s, e) ==
  /\ EntriesOf(s) = {e}
  /\ blacklistEntries[e].end_date > blacklistEntries[e].start_date
  /\ ~students[s].is_blacklisted
  /\ \/ ~blacklistEntries[e].is_active
     \/ blacklistEntries[e].end_date < now

\* The late returns of student s.
LateReturned(s) == {l \in Returned(s) : loans[l].returned_at > loans[l].due_at}

\* C24: right after an evaluation pass, a student with one ended suspension
\* is flagged if the student has exactly one late return after the end date of
\* that suspension (and no dismissal at count 1), and is not flagged if all
\* the late returns of the student date from before the suspension began.
C24_RepeatOffender ==
  last.op = "checkAtRiskStudents" =>
    \A s \in DOMAIN students : \A e \in EntriesOf(s) :
      OneEndedSuspension(s, e) =>
        /\ (/\ Cardinality({l \in LateReturned(s) :
                  loans[l].returned_at > blacklistEntries[e].end_date}) = 1
            /\ <<s, 1>> \notin dismissed)
             => s \in DOMAIN atRiskStudents
        /\ (\A l \in LateReturned(s) :
              loans[l].returned_at <= blacklistEntries[e].start_date)
             => s \notin DOMAIN atRiskStudents

\* The manual route of C24: a late return of a student whose only suspension
\* was closed by an un-suspend before this step, and who had no late return
\* so far, counts as a late return since the suspension.
C24_LateReturnAfterUnsuspend ==
  [][\A l \in DOMAIN loans, s \in DOMAIN students, e \in DOMAIN blacklistEntries :
       (/\ handleMarkReturned(1, l)
        /\ loans[l].student_id = s
        /\ loans[l].due_at < now
        /\ LateReturned(s) = {}
        /\ EntriesOf(s) = {e}
        /\ ~blacklistEntries[e].is_active
        /\ blacklistEntries[e].start_date < now
        /\ ~students[s].is_blacklisted)
         => AtRiskRow(s)'.late_returns_since_suspension
              >= AtRiskRow(s)'.warning_threshold]_vars

\* C25: handleEditLoan stores the new due date, is_overdue as (stored
\* returned_at is null and the new due date is before now) and the status that
\* goes with it, keeps a loan stored as returned 'returned', and leaves the
\* student's score equal to calculateTrustScore over the loans after the edit.
C25_EditLoanDueDate ==
  [][\A p \in Profiles, l \in DOMAIN loans, day \in Days :
       handleEditLoan(p, l, day) =>
         LET overdue == loans[l].returned_at = NULL /\ DateToTime(day) < now
             s == loans[l].student_id
         IN /\ loans'[l].due_at = DateToTime(day)
            /\ loans'[l].is_overdue = overdue
            /\ loans'[l].status = LoanStatus(loans[l].returned_at, overdue)
            /\ loans[l].returned_at # NULL => loans'[l].status = "returned"
            /\ s \in DOMAIN students =>
                 students'[s].trust_score = calculateTrustScore(loans', s)]_vars

\* C26: a loan stored with returned_at set and status 'returned' keeps that
\* status and that returned_at in every step that does not delete it.
C26_ReturnedIsTerminal ==
  [][\A l \in DOMAIN loans :
       (/\ loans[l].returned_at # NULL
        /\ loans[l].status = "returned"
        /\ l \in DOMAIN loans')
         => /\ loans'[l].status = "returned"
            /\ loans'[l].returned_at = loans[l].returned_at]_vars

\* C27: right after an evaluation pass, a student whose warning was dismissed
\* at the present count of late returns since the last suspension is not in
\* the warning list, and a student whose warning was dismissed at a lower
\* count only, and whose count is at or above the threshold, is in it.
C27_DismissalKeyedByCount ==
  last.op = "checkAtRiskStudents" =>
    \A s \in DOMAIN students :
      LET n == AtRiskRow(s).late_returns_since_suspension
      IN /\ <<s, n>> \in dismissed => s \notin DOMAIN atRiskStudents
         /\ (/\ \E m \in 0..(n - 1) : <<s, m>> \in dismissed
             /\ <<s, n>> \notin dismissed
             /\ n >= AtRiskRow(s).warning_threshold)
              => s \in DOMAIN atRiskStudents

\* C27 witness: a warning dismissed at count 1 is back in the list after the
\* pass that follows a second late return.
C27_Witness ==
  /\ last.op = "checkAtRiskStudents"
  /\ \E s \in DOMAIN atRiskStudents :
       /\ <<s, 1>> \in dismissed
       /\ atRiskStudents[s].late_returns_since_suspension = 2
       /\ LateReturnCount(s) = 2

\* A pass has left out a student whose warning was dismissed at the count the
\* student still has.
C27_StillDismissed ==
  /\ last.op = "checkAtRiskStudents"
  /\ \E s \in DOMAIN students :
       /\ <<s, AtRiskRow(s).late_returns_since_suspension>> \in dismissed
       /\ AtRiskRow(s).late_returns_since_suspension
            >= AtRiskRow(s).warning_threshold
       /\ s \notin DOMAIN atRiskStudents

\* Page a holds the snapshot of student s from which a Suspend was already
\* stored: the row shows s not suspended with the score before the penalty,
\* the store has s suspended with half that score.
SecondOfTwoSuspends(a, s) ==
  /\ s \in DOMAIN adminStudents[a]
  /\ s \in DOMAIN students
  /\ ~adminStudents[a][s].is_blacklisted
  /\ students[s].is_blacklisted
  /\ 2 * students[s].trust_score = adminStudents[a][s].trust_score

\* C28: when a Suspend is submitted from the snapshot from which another
\* Suspend of the same student was already stored, the stored score stays
\* half the score of the snapshot: the penalty is applied once.
C28_ConcurrentSuspend ==
  [][\A a \in Admins, s \in StudentIds, form \in BlacklistForms(Days) :
       (/\ form.is_blacklisted
        /\ handleBlacklistSubmit(a, s, form)
        /\ SecondOfTwoSuspends(a, s))
         => 2 * students'[s].trust_score = adminStudents[a][s].trust_score]_vars

\* C28 witness: the first of two Suspend submissions of a student is stored
\* (score halved once, from 100 to 50), and the other page still holds the
\* snapshot both started from, with room for its entry.
C28_Witness ==
  /\ last.op = "Suspend"
  /\ created.entries < limits.entries
  /\ \E a \in Admins :
       /\ SecondOfTwoSuspends(a, last.student)
       /\ students[last.student].trust_score = (NEW_STUDENT_TRUST * ScoreUnit) \div 2

\* The loans table cut down to the returned loans of student s.
ReturnedLoansTable(s) == [l \in Returned(s) |-> loans[l]]

\* C29: right after a return, a due-date edit or a deletion of a loan from a
\* student's profile, the stored score of that student is the score computed
\* from the student's returned loans alone, whatever score was stored before.
C29_ScoreFromReturnedLoans ==
  (last.op \in RecalcOps /\ last.student \in DOMAIN students) =>
    students[last.student].trust_score =
      calculateTrustScore(ReturnedLoansTable(last.student), last.student)

\* C29 witness: a student under suspension, hence with a halved score stored
\* before, has returned a loan on time and is stored with the score 100 of a
\* student whose returns were all on time.
C29_Witness ==
  /\ last.op = "handleMarkReturned"
  /\ last.student \in DOMAIN students
  /\ students[last.student].is_blacklisted
  /\ Returned(last.student) # {}
  /\ ReturnedOnTime(last.student) = Returned(last.student)
  /\ students[last.student].trust_score = NEW_STUDENT_TRUST * ScoreUnit

\* C30: every open loan references a stored student, and every item stored as
\* 'borrowed' has an open loan of a stored student.
C30_NoOrphanAfterStudentDelete ==
  /\ \A l \in DOMAIN loans :
       loans[l].returned_at = NULL => loans[l].student_id \in DOMAIN students
  /\ \A e \in DOMAIN equipment :
       equipment[e].status = "borrowed" =>
         \E l \in OpenLoansOn(e) : loans[l].student_id \in DOMAIN students
====
